---- MODULE Spec2Model ----
(***************************************************************************)
(* Model of app.py: the Streamlit script that analyses the monthly cost   *)
(* table of a sub-group of employees.  One run of the script is a         *)
(* straight-line sequence of sections; every section is one action and    *)
(* st.stop() ends the run.                                                 *)
(*                                                                         *)
(* Numbers.  Costs are integers (euros).  A computed float is a record    *)
(* [k, n, d]: k = "num" is the exact rational n/d in lowest terms with    *)
(* d > 0, k = "nan" is NaN / pd.NA, k = "inf" and k = "-inf" are the IEEE  *)
(* infinities that a float division by zero produces.  Rounding of the    *)
(* binary floats is not modelled.  ecart_type holds the sample variance   *)
(* (the square of the standard deviation): the square root is strictly    *)
(* increasing, so order and ties of ecart_type are those of the variance. *)
(***************************************************************************)
EXTENDS Integers, Sequences, FiniteSets, TLC

\* ---------------------------------------------------------------- bounds
\* Dense input tables have 0..MaxCols period columns, every cell free.
MaxCols == 3
\* Sparse input tables span 1..MaxYears calendar years; only the December
\* column of the first year and the January column of each later year may
\* hold a cost, every other cell is empty.
MaxYears == 3

\* ---------------------------------------------------- program constants
AnchorYear == 2024
MonthsPerYear == 12
Year2024 == 2024
Year2025 == 2025
AnomalieSeuil == 500
LongArret == 2
SeuilMin == 0
SeuilMax == 3000
SeuilStep == 100
SeuilDefault == 1500
TopNMin == 5
TopNMax == 20
TopNDefault == 10

\* An empty Excel cell, read by pandas as NaN.  The costs of the input
\* tables are non-negative, so the value never collides with a cost.
NaN == -1

\* ------------------------------------------------------------ the inputs
SousGroupes == {"soins", "autre"}
DenseCosts == {1000, 2000}
SparseCosts == {0, 1000}
SeuilChoices == {s \in {SeuilMin, SeuilDefault} : s % SeuilStep = 0 /\ s <= SeuilMax}
TopNChoices == {n \in {TopNMin, TopNDefault} : n <= TopNMax}

\* --------------------------------------------------------------- helpers
Range(s) == {s[i] : i \in DOMAIN s}

Abs(x) == IF x < 0 THEN -x ELSE x

Min(S) == CHOOSE x \in S : \A y \in S : x <= y

Max(S) == CHOOSE x \in S : \A y \in S : x >= y

RECURSIVE Gcd(_, _)
Gcd(a, b) == IF b = 0 THEN a ELSE Gcd(b, a % b)

RECURSIVE SumSeq(_)
SumSeq(s) == IF s = <<>> THEN 0 ELSE Head(s) + SumSeq(Tail(s))

RECURSIVE SortedSeq(_)
SortedSeq(S) == IF S = {} THEN <<>> ELSE <<Min(S)>> \o SortedSeq(S \ {Min(S)})

\* ------------------------------------------------------ float arithmetic
NA == [k |-> "nan", n |-> 0, d |-> 1]

PInf == [k |-> "inf", n |-> 0, d |-> 1]

NInf == [k |-> "-inf", n |-> 0, d |-> 1]

Float(n, d) ==
    LET s == IF d < 0 THEN -1 ELSE 1
        g == Gcd(Abs(n), Abs(d))
    IN  [k |-> "num", n |-> (s * n) \div g, d |-> (s * d) \div g]

IsNum(a) == a.k = "num"

IsNaN(a) == a.k = "nan"

FSub(a, b) ==
    IF IsNum(a) /\ IsNum(b) THEN Float(a.n * b.d - b.n * a.d, a.d * b.d) ELSE NA

FDiv(a, b) ==
    IF ~(IsNum(a) /\ IsNum(b)) THEN NA
    ELSE IF b.n # 0 THEN Float(a.n * b.d, a.d * b.n)
    ELSE IF a.n > 0 THEN PInf
    ELSE IF a.n < 0 THEN NInf
    ELSE NA

FMul(a, c) == IF IsNum(a) THEN Float(a.n * c, a.d) ELSE a

FLess(a, b) == a.n * b.d < b.n * a.d

\* ----------------------------------------------------------- input files
NoFile == [present |-> FALSE, id_cols |-> FALSE, ncols |-> 0, rows |-> <<>>]

Row(s, g, cells) == [Salarie |-> s, Sous_groupe |-> g, cells |-> cells]

\* The cells of a row of m period columns; the cells outside `filled` are empty.
CellRows(m, filled, costs) ==
    {[i \in 1..m |-> IF i \in filled THEN f[i] ELSE NaN] : f \in [filled -> costs \cup {NaN}]}

\* The rows of a table: no row, one row, or two rows of distinct employees.
\* Employee 1 is in "soins"; with `varied`, employee 2 is in either
\* sub-group and the two rows come in either order.
RowSeqs(m, filled, costs, varied) ==
    LET cs == CellRows(m, filled, costs)
        orders == IF varied THEN {<<1, 2>>, <<2, 1>>} ELSE {<<1, 2>>}
        groups == IF varied THEN SousGroupes ELSE {"soins"}
    IN  {<<>>}
        \cup {<<Row(1, g, c)>> : g \in groups, c \in cs}
        \cup {<<Row(o[1], IF o[1] = 1 THEN "soins" ELSE g, c1),
                Row(o[2], IF o[2] = 1 THEN "soins" ELSE g, c2)>> :
                o \in orders, g \in groups, c1 \in cs, c2 \in cs}

File(m, rows) == [present |-> TRUE, id_cols |-> TRUE, ncols |-> m, rows |-> rows]

\* Sub-groups and row order vary in the tables below the largest size.
DenseFiles ==
    UNION {{File(m, rs) : rs \in RowSeqs(m, 1..m, DenseCosts, m < MaxCols)} : m \in 0..MaxCols}

YearMarks(y) == {MonthsPerYear} \cup {MonthsPerYear * (j - 1) + 1 : j \in 2..y}

SparseFiles ==
    UNION {{File(Max(YearMarks(y)), rs) :
              rs \in RowSeqs(Max(YearMarks(y)), YearMarks(y), SparseCosts, y < MaxYears)} :
           y \in 1..MaxYears}

BadFile == [present |-> TRUE, id_cols |-> FALSE, ncols |-> 1, rows |-> <<>>]

Uploads == {NoFile, BadFile} \cup DenseFiles \cup SparseFiles

\* ------------------------------------------------------------- the state
VARIABLES
    pc,              \* the section of the script that runs next, or "done" / "stopped"
    ran,             \* the sections executed so far, in order
    stop_at,         \* the check at which st.stop() ended the run, "" if none
    uploaded_file,   \* the content of the file-uploader widget
    df_raw, period_cols, df_long,
    group_options, selected_group, df_group,
    seuil_absence, parcours,
    resume, resume_sorted,
    sum_2024, sum_2025, delta_total, nb_entrees, nb_sorties, nb_long_arrets,
    top_n, top_up, top_down,
    sal_instable, export

vars == <<pc, ran, stop_at, uploaded_file, df_raw, period_cols, df_long,
          group_options, selected_group, df_group, seuil_absence, parcours,
          resume, resume_sorted, sum_2024, sum_2025, delta_total, nb_entrees,
          nb_sorties, nb_long_arrets, top_n, top_up, top_down, sal_instable, export>>

\* ------------------------------------------------- 2. data preparation
\* period_cols = [c for c in df_raw.columns if c not in id_cols]; a period
\* column is named by its position among the period columns.
PeriodCols(file) == [c \in 1..file.ncols |-> c]

NoPeriodCols(cols) == Len(cols) = 0

\* pd.date_range("2024-01-01", periods=len(period_cols), freq="MS"); a date
\* is the number of months since January of year 0.
dates(cols) == [i \in 1..Len(cols) |-> AnchorYear * MonthsPerYear + (i - 1)]

col_to_date(cols) == [c \in Range(cols) |-> dates(cols)[CHOOSE i \in DOMAIN cols : cols[i] = c]]

\* Variant: months counted from 1, so that December falls in the next year.
YearOf_from_one(date) == (date + 1) \div MonthsPerYear

\* Series.dt.year
YearOf(date) == date \div MonthsPerYear

\* DataFrame.melt: one record per (row, period column), column after column.
melt(rows, cols) ==
    LET n == Len(rows) IN
    [k \in 1..(n * Len(cols)) |->
        LET c == ((k - 1) \div n) + 1
            i == ((k - 1) % n) + 1
        IN  [Salarie |-> rows[i].Salarie,
             Sous_groupe |-> rows[i].Sous_groupe,
             Periode_label |-> cols[c],
             Cout_global |-> rows[i].cells[c]]]

\* df_long["Date"] = Periode_label.map(col_to_date); df_long["Year"] = Date.dt.year
AddDate(long, cols) ==
    LET c2d == col_to_date(cols) IN
    [k \in DOMAIN long |->
        [Salarie |-> long[k].Salarie,
         Sous_groupe |-> long[k].Sous_groupe,
         Periode_label |-> long[k].Periode_label,
         Cout_global |-> long[k].Cout_global,
         Date |-> c2d[long[k].Periode_label],
         Year |-> YearOf(c2d[long[k].Periode_label])]]

\* Variant: a zero is taken for a missing value.
dropna_falsy(seq, col) == SelectSeq(seq, LAMBDA r : r[col] # NaN /\ r[col] # 0)

\* DataFrame.dropna(subset=[col])
dropna(seq, col) == SelectSeq(seq, LAMBDA r : r[col] # NaN)

\* lines 69-82: melt, Date, dropna(Date), Year, dropna(Cout_global)
BuildLong(file, cols) ==
    dropna(dropna(AddDate(melt(file.rows, cols), cols), "Date"), "Cout_global")

\* --------------------------------------------------- 2bis. the sub-group
GroupOptions(long) == {r.Sous_groupe : r \in Range(long)}

\* st.selectbox returns None when it has no option.
Selectable(options) == IF options = {} THEN {"None"} ELSE options

FilterGroup(long, g) == SelectSeq(long, LAMBDA r : r.Sous_groupe = g)

\* Variant: the emptiness check never fires.
empty_never(df) == FALSE

\* DataFrame.empty
empty(df) == Len(df) = 0

\* ------------------------------------- 2ter. entries, exits, absences
\* dates_sorted = sorted(df_group["Date"].unique())
dates_sorted(g) == SortedSeq({r.Date : r \in Range(g)})

\* date_to_idx = {d: i for i, d in enumerate(dates_sorted)}
date_to_idx(g) ==
    LET ds == dates_sorted(g) IN
    [d \in Range(ds) |-> (CHOOSE i \in DOMAIN ds : ds[i] = d) - 1]

\* df_group["idx"] = df_group["Date"].map(date_to_idx)
AddIdx(g) ==
    LET d2i == date_to_idx(g) IN
    [k \in DOMAIN g |->
        [Salarie |-> g[k].Salarie,
         Sous_groupe |-> g[k].Sous_groupe,
         Periode_label |-> g[k].Periode_label,
         Cout_global |-> g[k].Cout_global,
         Date |-> g[k].Date,
         Year |-> g[k].Year,
         idx |-> d2i[g[k].Date]]]

global_first_idx == 0

\* Variant: the length of the axis instead of its last position.
global_last_idx_len(g) == Len(dates_sorted(g))

global_last_idx(g) == Len(dates_sorted(g)) - 1

\* The loop of longest_true_streak from position i on.
RECURSIVE StreakLoop(_, _, _, _)
StreakLoop(bool_list, i, streak, max_streak) ==
    IF i > Len(bool_list) THEN max_streak
    ELSE IF bool_list[i]
         THEN StreakLoop(bool_list, i + 1, streak + 1, Max({max_streak, streak + 1}))
         ELSE StreakLoop(bool_list, i + 1, 0, max_streak)

\* Variant: returns the running streak instead of the maximum.
longest_true_streak_last(bool_list) ==
    LET falses == {i \in DOMAIN bool_list : ~bool_list[i]}
    IN  IF falses = {} THEN Len(bool_list) ELSE Len(bool_list) - Max(falses)

longest_true_streak(bool_list) == StreakLoop(bool_list, 1, 0, 0)

\* sub.sort_values("idx")
RECURSIVE SortByIdx(_)
SortByIdx(sub) ==
    IF sub = <<>> THEN <<>>
    ELSE LET m == Min({sub[k].idx : k \in DOMAIN sub})
             i == Min({k \in DOMAIN sub : sub[k].idx = m})
         IN  <<sub[i]>> \o SortByIdx(SubSeq(sub, 1, i - 1) \o SubSeq(sub, i + 1, Len(sub)))

\* (sub["Cout_global"] <= seuil_absence) | sub["Cout_global"].isna()
Faible(cout, seuil) == (cout # NaN /\ cout <= seuil) \/ cout = NaN

CountTrue(bool_list) == Cardinality({i \in DOMAIN bool_list : bool_list[i]})

parcours_logic(s, sub0, seuil, last_idx) ==
    LET sub == SortByIdx(sub0)
        first_idx == Min({sub[k].idx : k \in DOMAIN sub})
        last == Max({sub[k].idx : k \in DOMAIN sub})
        faible == [k \in DOMAIN sub |-> Faible(sub[k].Cout_global, seuil)]
    IN  [Salarie |-> s,
         entree_en_cours |-> first_idx > global_first_idx,
         sortie_en_cours |-> last < last_idx,
         nb_mois_faibles |-> CountTrue(faible),
         plus_long_arret |-> longest_true_streak(faible)]

\* The groups of groupby("Salarie"), in the order of the keys.
GroupKeys(g) == SortedSeq({r.Salarie : r \in Range(g)})

SubOf(g, s) == SelectSeq(g, LAMBDA r : r.Salarie = s)

\* df_group.groupby("Salarie").apply(parcours_logic).reset_index()
Parcours(g, seuil) ==
    LET keys == GroupKeys(g)
        last_idx == global_last_idx(g)
    IN  [j \in DOMAIN keys |-> parcours_logic(keys[j], SubOf(g, keys[j]), seuil, last_idx)]

\* ------------------------------------------ 3. indicators per employee
Costs(seq) == [k \in DOMAIN seq |-> seq[k].Cout_global]

\* Series.mean(): NaN for no value.
Mean(costs) == IF Len(costs) = 0 THEN NA ELSE Float(SumSeq(costs), Len(costs))

\* df_group.groupby(["Salarie", "Sous_groupe", "Year"])["Cout_global"].mean():
\* one record per (employee, year) that has a record in df_group.
annual_mean(g) ==
    {[Salarie |-> s, Year |-> y,
      Cout_global |-> Mean(Costs(SelectSeq(g, LAMBDA r : r.Salarie = s /\ r.Year = y)))] :
        <<s, y>> \in {<<r.Salarie, r.Year>> : r \in Range(g)}}

\* The year columns of the pivot table.
PivotColumns(am) == {a.Year : a \in am}

\* A cell of annual_mean.pivot_table(index, columns="Year"): NaN where the
\* employee has no mean for the year.
PivotCell(am, s, y) ==
    IF \E a \in am : a.Salarie = s /\ a.Year = y
    THEN (CHOOSE a \in am : a.Salarie = s /\ a.Year = y).Cout_global
    ELSE NA

\* Variant: a missing yearly mean is filled with zero.
Moy_fill_zero(am, s, y) ==
    IF \E a \in am : a.Salarie = s /\ a.Year = y
    THEN (CHOOSE a \in am : a.Salarie = s /\ a.Year = y).Cout_global
    ELSE Float(0, 1)

\* lines 178-189: the column of the year when the pivot has it, else pd.NA
Moy(am, s, y) == IF y \in PivotColumns(am) THEN PivotCell(am, s, y) ELSE NA

\* resume["var_abs"] = resume["moy_2025"] - resume["moy_2024"]
VarAbs(moy_2024, moy_2025) == FSub(moy_2025, moy_2024)

\* resume["var_rel_%"] = resume["var_abs"] / resume["moy_2024"] * 100
VarRel(var_abs, moy_2024) == FMul(FDiv(var_abs, moy_2024), 100)

\* Series.std() (ddof = 1), as the variance: NaN for fewer than 2 values.
Std(costs) ==
    LET n == Len(costs)
        sq == [k \in DOMAIN costs |-> costs[k] * costs[k]]
    IN  IF n < 2 THEN NA
        ELSE Float(n * SumSeq(sq) - SumSeq(costs) * SumSeq(costs), n * (n - 1))

\* (df_group["Cout_global"] <= 0) | (df_group["Cout_global"] < 500)
Anomalie(cout) == (cout <= 0) \/ (cout < AnomalieSeuil)

AddAnomalie(g) ==
    [k \in DOMAIN g |->
        [Salarie |-> g[k].Salarie,
         Sous_groupe |-> g[k].Sous_groupe,
         Periode_label |-> g[k].Periode_label,
         Cout_global |-> g[k].Cout_global,
         Date |-> g[k].Date,
         Year |-> g[k].Year,
         idx |-> g[k].idx,
         Anomalie |-> Anomalie(g[k].Cout_global)]]

ParcoursOf(parc, s) == parc[CHOOSE j \in DOMAIN parc : parc[j].Salarie = s]

\* lines 164-219: one row per employee of df_group, in the order of the
\* pivot index, completed by the merges on "Salarie".
Resume(g, parc) ==
    LET keys == GroupKeys(g)
        am == annual_mean(g)
    IN  [j \in DOMAIN keys |->
            LET s == keys[j]
                sub == SubOf(g, s)
                moy_2024 == Moy(am, s, Year2024)
                moy_2025 == Moy(am, s, Year2025)
                var_abs == VarAbs(moy_2024, moy_2025)
                p == ParcoursOf(parc, s)
            IN  [Salarie |-> s,
                 Sous_groupe |-> sub[1].Sous_groupe,
                 moy_2024 |-> moy_2024,
                 moy_2025 |-> moy_2025,
                 var_abs |-> var_abs,
                 var_rel |-> VarRel(var_abs, moy_2024),
                 ecart_type |-> Std(Costs(sub)),
                 nb_anomalies |-> Cardinality({k \in DOMAIN sub : Anomalie(sub[k].Cout_global)}),
                 entree_en_cours |-> p.entree_en_cours,
                 sortie_en_cours |-> p.sortie_en_cours,
                 nb_mois_faibles |-> p.nb_mois_faibles,
                 plus_long_arret |-> p.plus_long_arret]]

\* DataFrame.sort_values(key, ascending): the rows with a NaN key come last
\* in their original order; the default sort (quicksort) is not stable, so
\* rows with equal keys come in any order.
\* Variant: the ascending flag inverted.
Ordered_flipped(a, b, ascending) == IF ascending THEN ~FLess(a, b) ELSE ~FLess(b, a)

Ordered(a, b, ascending) == IF ascending THEN ~FLess(b, a) ELSE ~FLess(a, b)

sort_values(seq, key, ascending) ==
    {[i \in DOMAIN seq |-> seq[p[i]]] : p \in
        {q \in Permutations(DOMAIN seq) :
            \A i, j \in DOMAIN seq : i < j =>
                LET a == seq[q[i]][key]
                    b == seq[q[j]][key]
                IN  IF IsNaN(a) THEN IsNaN(b) /\ q[i] < q[j]
                    ELSE IsNaN(b) \/ Ordered(a, b, ascending)}}

\* DataFrame.head(n)
head(seq, n) == SubSeq(seq, 1, Min({n, Len(seq)}))

\* ------------------------------------------------------ 4. group summary
\* df_group[df_group["Year"] == y]["Cout_global"].sum()
SumYear(g, y) == SumSeq(Costs(SelectSeq(g, LAMBDA r : r.Year = y)))

\* ----------------------------------------------------------------- Init
Init ==
    /\ uploaded_file \in Uploads
    /\ pc = "upload"
    /\ ran = <<>>
    /\ stop_at = ""
    /\ df_raw = NoFile
    /\ period_cols = <<>>
    /\ df_long = <<>>
    /\ group_options = {}
    /\ selected_group = "None"
    /\ df_group = <<>>
    /\ seuil_absence = SeuilDefault
    /\ parcours = <<>>
    /\ resume = <<>>
    /\ resume_sorted = <<>>
    /\ sum_2024 = 0
    /\ sum_2025 = 0
    /\ delta_total = 0
    /\ nb_entrees = 0
    /\ nb_sorties = 0
    /\ nb_long_arrets = 0
    /\ top_n = TopNDefault
    /\ top_up = <<>>
    /\ top_down = <<>>
    /\ sal_instable = <<>>
    /\ export = <<>>

\* -------------------------------------------------------------- actions
\* lines 33-49: no file, or a file without the identifier columns, stops.
Upload ==
    /\ pc = "upload"
    /\ ran' = Append(ran, "upload")
    /\ IF ~uploaded_file.present
       THEN /\ pc' = "stopped" /\ stop_at' = "uploaded_file"
            /\ UNCHANGED df_raw
       ELSE /\ df_raw' = uploaded_file
            /\ IF ~uploaded_file.id_cols
               THEN pc' = "stopped" /\ stop_at' = "required_cols"
               ELSE pc' = "prepare" /\ UNCHANGED stop_at
    /\ UNCHANGED <<uploaded_file, period_cols, df_long, group_options, selected_group,
                   df_group, seuil_absence, parcours, resume, resume_sorted, sum_2024,
                   sum_2025, delta_total, nb_entrees, nb_sorties, nb_long_arrets,
                   top_n, top_up, top_down, sal_instable, export>>

\* lines 56-82
Prepare ==
    /\ pc = "prepare"
    /\ ran' = Append(ran, "prepare")
    /\ period_cols' = PeriodCols(df_raw)
    /\ IF NoPeriodCols(period_cols')
       THEN /\ pc' = "stopped" /\ stop_at' = "period_cols"
            /\ UNCHANGED df_long
       ELSE /\ df_long' = BuildLong(df_raw, period_cols')
            /\ pc' = "choix" /\ UNCHANGED stop_at
    /\ UNCHANGED <<uploaded_file, df_raw, group_options, selected_group,
                   df_group, seuil_absence, parcours, resume, resume_sorted, sum_2024,
                   sum_2025, delta_total, nb_entrees, nb_sorties, nb_long_arrets,
                   top_n, top_up, top_down, sal_instable, export>>

\* lines 87-96: the user selects any of the options.
ChoixSousGroupe ==
    /\ pc = "choix"
    /\ ran' = Append(ran, "choix")
    /\ group_options' = GroupOptions(df_long)
    /\ \E g \in Selectable(group_options') :
        /\ selected_group' = g
        /\ df_group' = FilterGroup(df_long, g)
    /\ IF empty(df_group')
       THEN pc' = "stopped" /\ stop_at' = "df_group"
       ELSE pc' = "parcours" /\ UNCHANGED stop_at
    /\ UNCHANGED <<uploaded_file, df_raw, period_cols, df_long,
                   seuil_absence, parcours, resume, resume_sorted, sum_2024,
                   sum_2025, delta_total, nb_entrees, nb_sorties, nb_long_arrets,
                   top_n, top_up, top_down, sal_instable, export>>

\* lines 102-157: the user sets the threshold.
ParcoursSection ==
    /\ pc = "parcours"
    /\ ran' = Append(ran, "parcours")
    /\ \E s \in SeuilChoices : seuil_absence' = s
    /\ df_group' = AddIdx(df_group)
    /\ parcours' = Parcours(df_group', seuil_absence')
    /\ pc' = "indicateurs"
    /\ UNCHANGED <<stop_at, uploaded_file, df_raw, period_cols, df_long, group_options,
                   selected_group, resume, resume_sorted, sum_2024,
                   sum_2025, delta_total, nb_entrees, nb_sorties, nb_long_arrets,
                   top_n, top_up, top_down, sal_instable, export>>

\* lines 164-222
Indicateurs ==
    /\ pc = "indicateurs"
    /\ ran' = Append(ran, "indicateurs")
    /\ resume' = Resume(df_group, parcours)
    /\ df_group' = AddAnomalie(df_group)
    /\ resume_sorted' \in sort_values(resume', "var_abs", FALSE)
    /\ pc' = "global"
    /\ UNCHANGED <<stop_at, uploaded_file, df_raw, period_cols, df_long, group_options,
                   selected_group, seuil_absence, parcours, sum_2024,
                   sum_2025, delta_total, nb_entrees, nb_sorties, nb_long_arrets,
                   top_n, top_up, top_down, sal_instable, export>>

\* lines 230-245
ResumeGlobal ==
    /\ pc = "global"
    /\ ran' = Append(ran, "global")
    /\ sum_2024' = SumYear(df_group, Year2024)
    /\ sum_2025' = SumYear(df_group, Year2025)
    /\ delta_total' = sum_2025' - sum_2024'
    /\ nb_entrees' = CountTrue([j \in DOMAIN resume |-> resume[j].entree_en_cours])
    /\ nb_sorties' = CountTrue([j \in DOMAIN resume |-> resume[j].sortie_en_cours])
    /\ nb_long_arrets' = CountTrue([j \in DOMAIN resume |-> resume[j].plus_long_arret >= LongArret])
    /\ pc' = "classements"
    /\ UNCHANGED <<stop_at, uploaded_file, df_raw, period_cols, df_long, group_options,
                   selected_group, df_group, seuil_absence, parcours, resume,
                   resume_sorted, top_n, top_up, top_down, sal_instable, export>>

\* lines 284-289: the user sets the number of ranked employees.
Classements ==
    /\ pc = "classements"
    /\ ran' = Append(ran, "classements")
    /\ \E n \in TopNChoices : top_n' = n
    /\ top_up' = head(resume_sorted, top_n')
    /\ \E asc \in sort_values(resume_sorted, "var_abs", TRUE) : top_down' = head(asc, top_n')
    /\ pc' = "synthese"
    /\ UNCHANGED <<stop_at, uploaded_file, df_raw, period_cols, df_long, group_options,
                   selected_group, df_group, seuil_absence, parcours, resume,
                   resume_sorted, sum_2024, sum_2025, delta_total, nb_entrees,
                   nb_sorties, nb_long_arrets, sal_instable, export>>

\* line 444: resume_sorted.sort_values("ecart_type", ascending=False).iloc[0]
Synthese ==
    /\ pc = "synthese"
    /\ ran' = Append(ran, "synthese")
    /\ \E st \in sort_values(resume_sorted, "ecart_type", FALSE) : sal_instable' = st[1]
    /\ pc' = "export"
    /\ UNCHANGED <<stop_at, uploaded_file, df_raw, period_cols, df_long, group_options,
                   selected_group, df_group, seuil_absence, parcours, resume,
                   resume_sorted, sum_2024, sum_2025, delta_total, nb_entrees,
                   nb_sorties, nb_long_arrets, top_n, top_up, top_down, export>>

\* lines 458-461: the two sheets of the workbook.
Export ==
    /\ pc = "export"
    /\ ran' = Append(ran, "export")
    /\ export' = <<resume_sorted, df_group>>
    /\ pc' = "done"
    /\ UNCHANGED <<stop_at, uploaded_file, df_raw, period_cols, df_long, group_options,
                   selected_group, df_group, seuil_absence, parcours, resume,
                   resume_sorted, sum_2024, sum_2025, delta_total, nb_entrees,
                   nb_sorties, nb_long_arrets, top_n, top_up, top_down, sal_instable>>

Next ==
    \/ Upload
    \/ Prepare
    \/ ChoixSousGroupe
    \/ ParcoursSection
    \/ Indicateurs
    \/ ResumeGlobal
    \/ Classements
    \/ Synthese
    \/ Export

Spec == Init /\ [][Next]_vars

\* ======================================================================
\* Properties.  They are stated against the input table df_raw, not against
\* the intermediate tables the script derives from it.
\* ======================================================================
Ran(section) == \E i \in DOMAIN ran : ran[i] = section

NRows == Len(df_raw.rows)

NCols == df_raw.ncols

Cells == (1..NRows) \X (1..NCols)

EmptyCells == LET rows == df_raw.rows IN {ic \in Cells : rows[ic[1]].cells[ic[2]] = NaN}

RawRow(s) == CHOOSE row \in Range(df_raw.rows) : row.Salarie = s

\* The period columns in which employee s has a cost.
CostCols(s) == LET cells == RawRow(s).cells IN {c \in DOMAIN cells : cells[c] # NaN}

\* The employees of the selected sub-group.
GroupSalaries == {row.Salarie : row \in {r \in Range(df_raw.rows) : r.Sous_groupe = selected_group}}

\* The period columns in which some employee of the sub-group has a cost.
AxisCost == UNION {CostCols(s) : s \in GroupSalaries}

\* The period columns of calendar year y.
YearCols(y) ==
    {c \in 1..NCols : MonthsPerYear * (y - AnchorYear) < c /\ c <= MonthsPerYear * (y - AnchorYear + 1)}

RECURSIVE SumCosts(_, _)
SumCosts(s, cols) ==
    IF cols = {} THEN 0
    ELSE LET c == CHOOSE x \in cols : TRUE
         IN  RawRow(s).cells[c] + SumCosts(s, cols \ {c})

RECURSIVE SumGroup(_, _)
SumGroup(salaries, cols) ==
    IF salaries = {} THEN 0
    ELSE LET s == CHOOSE x \in salaries : TRUE
         IN  SumCosts(s, CostCols(s) \cap cols) + SumGroup(salaries \ {s}, cols)

RECURSIVE SumLong(_)
SumLong(seq) == IF seq = <<>> THEN 0 ELSE Head(seq).Cout_global + SumLong(Tail(seq))

PrepareDone == Ran("prepare") /\ stop_at # "period_cols"

\* ------------------------------------------------------------------ C1
\* C1 as stated: after the reshaping step, df_long holds exactly N*M
\* records for a table of N rows and M period columns, empty cells included.
C1_AllPairs == PrepareDone => Len(df_long) = NRows * NCols

\* C1 amended: df_long holds exactly one record per (employee, period
\* column) pair whose cost cell is not empty and no other record, that is
\* N*M records less the number of empty cells.
C1_FilledPairs ==
    PrepareDone =>
        /\ Len(df_long) = NRows * NCols - Cardinality(EmptyCells)
        /\ \A ic \in Cells \ EmptyCells :
              Cardinality({k \in DOMAIN df_long :
                              /\ df_long[k].Salarie = df_raw.rows[ic[1]].Salarie
                              /\ df_long[k].Periode_label = ic[2]
                              /\ df_long[k].Cout_global = df_raw.rows[ic[1]].cells[ic[2]]}) = 1

C1_Witness ==
    /\ PrepareDone /\ NRows = 2 /\ NCols = 3
    /\ Cardinality(EmptyCells) = 2 /\ Len(df_long) = 4

\* ------------------------------------------------------------------ C2
\* C2 as stated: var_rel_% is undefined whenever moy_2024 is 0 or undefined,
\* and equals var_abs / moy_2024 * 100 for every other employee.
C2_VarRelNotApplicable ==
    Ran("indicateurs") =>
        \A j \in DOMAIN resume :
            LET r == resume[j] IN
            IF IsNaN(r.moy_2024) \/ (IsNum(r.moy_2024) /\ r.moy_2024.n = 0)
            THEN IsNaN(r.var_rel)
            ELSE /\ IsNum(r.var_rel) = IsNum(r.var_abs)
                 /\ IsNum(r.var_rel) =>
                        r.var_rel.n * r.var_abs.d * r.moy_2024.n
                            = 100 * r.var_abs.n * r.moy_2024.d * r.var_rel.d

\* ------------------------------------------------------------------ C3
\* C3 as stated: sum_2024 + sum_2025 is the sum of all the costs of the
\* filtered detail table, for any number of period columns.
C3_TotalsCoverDetail == Ran("global") => sum_2024 + sum_2025 = SumLong(df_group)

\* C3 amended: sum_2024 + sum_2025 is the sum of the costs of the sub-group
\* in the first 24 period columns (the years 2024 and 2025); it is the sum
\* of all the costs of df_group when the table has at most 24 period columns.
C3_TotalsCoverTwoYears ==
    Ran("global") =>
        /\ sum_2024 = SumGroup(GroupSalaries, YearCols(Year2024))
        /\ sum_2025 = SumGroup(GroupSalaries, YearCols(Year2025))
        /\ NCols <= 2 * MonthsPerYear => sum_2024 + sum_2025 = SumLong(df_group)

C3_Witness ==
    /\ Ran("global") /\ NCols > 2 * MonthsPerYear
    /\ sum_2024 > 0 /\ sum_2025 > 0
    /\ sum_2024 + sum_2025 < SumLong(df_group)

\* ------------------------------------------------------------------ C4
\* C4 as stated: every row of top_up and of top_down has a defined var_abs.
C4_RankedHaveVarAbs ==
    Ran("classements") =>
        \A r \in Range(top_up) \cup Range(top_down) : ~IsNaN(r.var_abs)

\* ------------------------------------------------------------------ C5
\* C5: for every employee of the summary, plus_long_arret <= nb_mois_faibles
\* <= the number of months of the employee in df_group, and plus_long_arret
\* is 0 exactly when nb_mois_faibles is 0.
C5_StreakBounds ==
    Ran("indicateurs") =>
        \A j \in DOMAIN resume :
            LET r == resume[j] IN
            /\ r.plus_long_arret <= r.nb_mois_faibles
            /\ r.nb_mois_faibles <= Cardinality({k \in DOMAIN df_group : df_group[k].Salarie = r.Salarie})
            /\ (r.plus_long_arret = 0) = (r.nb_mois_faibles = 0)

C5_Witness ==
    /\ Ran("indicateurs")
    /\ \E j \in DOMAIN resume :
          /\ resume[j].plus_long_arret = 1
          /\ resume[j].nb_mois_faibles = 2
          /\ Cardinality(CostCols(resume[j].Salarie)) = 3

\* ------------------------------------------------------------------ C6
NothingAfter(sections) ==
    /\ pc = "stopped"
    /\ ran = sections
    /\ parcours = <<>> /\ resume = <<>> /\ resume_sorted = <<>>
    /\ top_up = <<>> /\ top_down = <<>> /\ sal_instable = <<>> /\ export = <<>>

\* C6: a run whose table has no period column stops at that check, and a
\* run whose sub-group filter yields no record stops at that check; no later
\* section runs and no summary row is produced.
C6_StopsAtCheck ==
    /\ (Ran("prepare") /\ NCols = 0) =>
          stop_at = "period_cols" /\ NothingAfter(<<"upload", "prepare">>)
    /\ (Ran("choix") /\ df_group = <<>>) =>
          stop_at = "df_group" /\ NothingAfter(<<"upload", "prepare", "choix">>)

C6_Witness ==
    /\ pc = "stopped" /\ stop_at = "df_group"
    /\ NRows = 2 /\ NCols = 3 /\ df_long = <<>>

\* ------------------------------------------------------------------ C7
\* The mean of the costs of employee s in year y is the float m.
IsMeanOf(m, s, y) ==
    LET cols == CostCols(s) \cap YearCols(y) IN
    IF cols = {} THEN IsNaN(m)
    ELSE IsNum(m) /\ m.n * Cardinality(cols) = m.d * SumCosts(s, cols)

\* C7: moy_2024 and moy_2025 are the means of the employee's costs of the
\* year, undefined (never zero) when the employee has no cost in the year;
\* var_abs is undefined exactly when one of the two means is undefined, and
\* is moy_2025 - moy_2024 when both are defined.
C7_VarAbsDefinedness ==
    Ran("indicateurs") =>
        \A j \in DOMAIN resume :
            LET r == resume[j] IN
            /\ IsMeanOf(r.moy_2024, r.Salarie, Year2024)
            /\ IsMeanOf(r.moy_2025, r.Salarie, Year2025)
            /\ IsNaN(r.var_abs) = (IsNaN(r.moy_2024) \/ IsNaN(r.moy_2025))
            /\ ~IsNaN(r.var_abs) =>
                  /\ IsNum(r.var_abs)
                  /\ r.var_abs.n * r.moy_2024.d * r.moy_2025.d
                        = r.var_abs.d * (r.moy_2025.n * r.moy_2024.d - r.moy_2024.n * r.moy_2025.d)

C7_Witness ==
    /\ Ran("indicateurs")
    /\ \E i, j \in DOMAIN resume :
          /\ IsNum(resume[i].var_abs) /\ resume[i].var_abs.n # 0
          /\ IsNum(resume[j].moy_2024) /\ IsNaN(resume[j].moy_2025) /\ IsNaN(resume[j].var_abs)

\* ------------------------------------------------------------------ C8
\* C8 as stated: entree_en_cours and sortie_en_cours compare the first and
\* the last period at which the employee has a record, cost present or
\* absent, with the ends of the period axis of the sub-group; every employee
\* of the table has a record for every period column, so that an employee
\* with an empty first (last) cell is not flagged.
C8_AnyRecordSpan ==
    Ran("indicateurs") =>
        \A j \in DOMAIN resume :
            LET recordCols == {c \in 1..NCols : resume[j].Salarie \in GroupSalaries}
                axis == UNION {{c \in 1..NCols : s \in GroupSalaries} : s \in GroupSalaries}
            IN  /\ resume[j].entree_en_cours = (Min(recordCols) > Min(axis))
                /\ resume[j].sortie_en_cours = (Max(recordCols) < Max(axis))

\* C8 amended: entree_en_cours and sortie_en_cours compare the first and the
\* last period at which the employee has a cost with the first and the last
\* period at which some employee of the sub-group has a cost; an employee
\* whose first (last) cell of that axis is empty is flagged.
C8_CostSpan ==
    Ran("indicateurs") =>
        LET first == Min(AxisCost)
            last == Max(AxisCost)
        IN  \A j \in DOMAIN resume :
                LET cols == CostCols(resume[j].Salarie) IN
                /\ resume[j].entree_en_cours = (Min(cols) > first)
                /\ resume[j].sortie_en_cours = (Max(cols) < last)

C8_Witness ==
    /\ Ran("indicateurs")
    /\ \E i, j \in DOMAIN resume :
          /\ resume[i].entree_en_cours /\ ~resume[i].sortie_en_cours
          /\ RawRow(resume[i].Salarie).cells[Min(AxisCost)] = NaN
          /\ resume[j].sortie_en_cours /\ ~resume[j].entree_en_cours
          /\ RawRow(resume[j].Salarie).cells[Max(AxisCost)] = NaN

\* ------------------------------------------------------------------ C9
\* C9 as stated: plus_long_arret is the longest run of consecutive months
\* whose cost is absent or at most seuil_absence, and nb_mois_faibles counts
\* these months: a month with an empty cost cell is low and extends a run.
C9_AbsentExtendsRun ==
    Ran("indicateurs") =>
        \A j \in DOMAIN resume :
            LET cells == RawRow(resume[j].Salarie).cells
                low == [c \in 1..NCols |-> cells[c] = NaN \/ cells[c] <= seuil_absence]
            IN  /\ resume[j].plus_long_arret = StreakLoop(low, 1, 0, 0)
                /\ resume[j].nb_mois_faibles = Cardinality({c \in 1..NCols : low[c]})

\* ----------------------------------------------------------------- C10
Defined == {j \in DOMAIN resume : IsNum(resume[j].ecart_type)}

MostVolatile == {j \in Defined : \A i \in Defined : ~FLess(resume[j].ecart_type, resume[i].ecart_type)}

\* The position of employee s in the input table.
InputPos(s) == CHOOSE i \in DOMAIN df_raw.rows : df_raw.rows[i].Salarie = s

\* C10 as stated: sal_instable has the largest defined ecart_type, and of
\* several employees with that ecart_type it is the first of the input table.
C10_FirstOfInput ==
    (Ran("synthese") /\ Defined # {}) =>
        \E j \in MostVolatile :
            /\ sal_instable.Salarie = resume[j].Salarie
            /\ \A i \in MostVolatile : InputPos(resume[j].Salarie) <= InputPos(resume[i].Salarie)

\* C10 amended: when some employee has a defined ecart_type, sal_instable is
\* an employee whose ecart_type is the largest of the defined ones; which
\* of several such employees is reported is not fixed by the input order.
C10_MaxVolatility ==
    (Ran("synthese") /\ Defined # {}) =>
        \E j \in MostVolatile : sal_instable = resume[j]

C10_Witness ==
    /\ Ran("synthese")
    /\ \E i, j \in Defined :
          /\ FLess(resume[i].ecart_type, resume[j].ecart_type)
          /\ sal_instable = resume[j]
          /\ IsNum(resume[i].var_abs) /\ IsNum(resume[j].var_abs)
          /\ FLess(resume[j].var_abs, resume[i].var_abs)

====
